---- MODULE Spec2Model ----
(***************************************************************************)
(* Validation core of up-rust: UriValidator, UUID, the UAttributes         *)
(* validators (Publish / Request / Response) and the role selection of the *)
(* CloudEvent validators.                                                  *)
(*                                                                         *)
(* Conventions                                                             *)
(*   Option<T>    None is <<>>, Some(v) is <<v>>                           *)
(*   String       a field that the code inspects (contains, trim, ==) is a *)
(*                sequence of one-character strings; error messages are    *)
(*                TLA+ strings built with \o                               *)
(*   u64          four 16-bit limbs, most significant first                *)
(*   Result       [ok |-> BOOLEAN, msg |-> STRING]                         *)
(***************************************************************************)
EXTENDS Integers, Sequences, FiniteSets, TLC

VARIABLES attributes, uri, cloud_event, uproto_uuid, result, calls, now

vars == <<attributes, uri, cloud_event, uproto_uuid, result, calls, now>>

(***************************************************************************)
(* Bounds of the explored inputs.                                          *)
(***************************************************************************)
\* largest ttl (ms) carried by the explored attributes
MaxTtl == 2
\* largest creation time (ms) embedded in the explored message ids
MaxTime == 2
\* largest wall-clock reading (ms since the epoch) handed to is_expired
MaxClock == 4
\* number of callers that share one attributes value
NumThreads == 2

(***************************************************************************)
(* Option and Result                                                       *)
(***************************************************************************)
None == <<>>
Some(v) == <<v>>
is_some(o) == o # <<>>
is_none(o) == o = <<>>
unwrap(o) == o[1]

Success == [ok |-> TRUE, msg |-> ""]
Failure(m) == [ok |-> FALSE, msg |-> m]
is_failure(r) == ~r.ok

(***************************************************************************)
(* str methods used by the validators                                      *)
(***************************************************************************)
is_whitespace(c) == c \in {" ", "\t", "\n", "\r"}

RECURSIVE trim_start(_)
trim_start(s) ==
    IF s = <<>> THEN s
    ELSE IF is_whitespace(Head(s)) THEN trim_start(Tail(s)) ELSE s

RECURSIVE trim_end(_)
trim_end(s) ==
    IF s = <<>> THEN s
    ELSE IF is_whitespace(s[Len(s)]) THEN trim_end(SubSeq(s, 1, Len(s) - 1)) ELSE s

trim(s) == trim_end(trim_start(s))

str_is_empty(s) == Len(s) = 0

contains(s, pat) ==
    \E i \in 0..(Len(s) - Len(pat)) : SubSeq(s, i + 1, i + Len(pat)) = pat

(***************************************************************************)
(* UriValidator                                                            *)
(***************************************************************************)
is_empty(u) ==
    is_none(u.authority) \/ is_none(u.entity) \/ is_none(u.resource)

is_remote(authority) == is_some(authority.remote)

UriValidator_validate_unordered(u) ==
    IF is_some(u.entity) /\ str_is_empty(trim(unwrap(u.entity).name))
    THEN Failure("Uri is missing uSoftware Entity name")
    ELSE IF is_some(u.authority) /\ ~is_remote(unwrap(u.authority))
    THEN Failure("Uri is remote missing uAuthority")
    ELSE IF is_empty(u)
    THEN Failure("Uri is empty")
    ELSE Success

UriValidator_validate_local_ok(u) ==
    IF is_empty(u)
    THEN Failure("Uri is empty")
    ELSE IF is_some(u.entity) /\ str_is_empty(trim(unwrap(u.entity).name))
    THEN Failure("Uri is missing uSoftware Entity name")
    ELSE Success

UriValidator_validate(u) ==
    IF is_empty(u)
    THEN Failure("Uri is empty")
    ELSE IF is_some(u.authority) /\ ~is_remote(unwrap(u.authority))
    THEN Failure("Uri is remote missing uAuthority")
    ELSE IF is_some(u.entity) /\ str_is_empty(trim(unwrap(u.entity).name))
    THEN Failure("Uri is missing uSoftware Entity name")
    ELSE Success

is_rpc_method_untrimmed(u) ==
    /\ ~is_empty(u)
    /\ contains(unwrap(u.resource).name, <<"r", "p", "c">>)
    /\ \/ /\ is_some(unwrap(u.resource).instance)
          /\ ~str_is_empty(unwrap(unwrap(u.resource).instance))
       \/ /\ is_some(unwrap(u.resource).id)
          /\ unwrap(unwrap(u.resource).id) # 0

is_rpc_method(u) ==
    /\ ~is_empty(u)
    /\ contains(unwrap(u.resource).name, <<"r", "p", "c">>)
    /\ \/ /\ is_some(unwrap(u.resource).instance)
          /\ ~str_is_empty(trim(unwrap(unwrap(u.resource).instance)))
       \/ /\ is_some(unwrap(u.resource).id)
          /\ unwrap(unwrap(u.resource).id) # 0

is_rpc_response_by_instance(u) ==
    /\ is_rpc_method(u)
    /\ is_some(unwrap(u.resource).instance)
    /\ contains(unwrap(unwrap(u.resource).instance),
                <<"r", "e", "s", "p", "o", "n", "s", "e">>)

is_rpc_response(u) ==
    /\ is_rpc_method(u)
    /\ \/ /\ is_some(unwrap(u.resource).instance)
          /\ contains(unwrap(unwrap(u.resource).instance),
                      <<"r", "e", "s", "p", "o", "n", "s", "e">>)
       \/ /\ is_some(unwrap(u.resource).id)
          /\ unwrap(unwrap(u.resource).id) # 0

is_micro_form(u) ==
    /\ ~is_empty(u)
    /\ is_some(unwrap(u.entity).id)
    /\ is_some(unwrap(u.resource).id)
    /\ is_none(unwrap(u.authority).remote)

UriValidator_validate_rpc_method_unvalidated(u) ==
    IF ~is_rpc_method(u)
    THEN Failure("Invalid RPC method uri. Uri should be the method to be called, or method from response")
    ELSE Success

UriValidator_validate_rpc_method(u) ==
    LET status == UriValidator_validate(u)
    IN  IF is_failure(status) THEN status
        ELSE IF ~is_rpc_method(u)
        THEN Failure("Invalid RPC method uri. Uri should be the method to be called, or method from response")
        ELSE Success

UriValidator_validate_rpc_response_accepting(u) ==
    LET status == UriValidator_validate(u)
    IN  IF is_failure(status) THEN status
        ELSE IF ~is_rpc_response(u) THEN Failure("Invalid RPC response type")
        ELSE Success

UriValidator_validate_rpc_response(u) ==
    LET status == UriValidator_validate(u)
    IN  IF is_failure(status) THEN status
        ELSE IF is_rpc_response(u) THEN Failure("Invalid RPC response type")
        ELSE Success

(***************************************************************************)
(* u64 arithmetic on four 16-bit limbs, most significant limb first        *)
(***************************************************************************)
LimbBase == 2 ^ 16

u64_from(n) == <<0, 0, n \div LimbBase, n % LimbBase>>

RECURSIVE and16(_, _)
and16(a, b) ==
    IF a = 0 \/ b = 0 THEN 0
    ELSE (a % 2) * (b % 2) + 2 * and16(a \div 2, b \div 2)

u64_and(x, y) ==
    <<and16(x[1], y[1]), and16(x[2], y[2]), and16(x[3], y[3]), and16(x[4], y[4])>>

u64_shr16(x) == <<0, x[1], x[2], x[3]>>

RECURSIVE u64_lt_from(_, _, _)
u64_lt_from(x, y, i) ==
    IF i > 4 THEN FALSE
    ELSE IF x[i] # y[i] THEN x[i] < y[i]
    ELSE u64_lt_from(x, y, i + 1)

u64_lt(x, y) == u64_lt_from(x, y, 1)
u64_ge(x, y) == ~u64_lt(x, y)

\* borrow taken from limb i by the limbs below it
RECURSIVE borrow_into(_, _, _)
borrow_into(x, y, i) ==
    IF i = 4 THEN 0
    ELSE IF x[i + 1] - y[i + 1] - borrow_into(x, y, i + 1) < 0 THEN 1 ELSE 0

sub_limb(x, y, i) == (x[i] - y[i] - borrow_into(x, y, i) + LimbBase) % LimbBase

\* x - y modulo 2^64
wrapping_sub(x, y) ==
    <<sub_limb(x, y, 1), sub_limb(x, y, 2), sub_limb(x, y, 3), sub_limb(x, y, 4)>>

(***************************************************************************)
(* UUID                                                                    *)
(***************************************************************************)
BITMASK_VERSION == <<0, 0, 0, 15 * 2 ^ 12>>
VERSION_CUSTOM == <<0, 0, 0, 8 * 2 ^ 12>>
BITMASK_VARIANT == <<3 * 2 ^ 14, 0, 0, 0>>
VARIANT_RFC4122 == <<2 * 2 ^ 14, 0, 0, 0>>

Uuid_default == [msb |-> <<0, 0, 0, 0>>, lsb |-> <<0, 0, 0, 0>>]

is_custom_version(uuid) == u64_and(uuid.msb, BITMASK_VERSION) = VERSION_CUSTOM

is_rfc_variant(uuid) == u64_and(uuid.lsb, BITMASK_VARIANT) = VARIANT_RFC4122

is_uprotocol_uuid(uuid) == is_custom_version(uuid) /\ is_rfc_variant(uuid)

get_time_from_lsb(uuid) ==
    IF is_uprotocol_uuid(uuid) THEN Some(u64_shr16(uuid.lsb)) ELSE None

get_time_version_only(uuid) ==
    IF is_custom_version(uuid) THEN Some(u64_shr16(uuid.msb)) ELSE None

get_time(uuid) ==
    IF is_uprotocol_uuid(uuid) THEN Some(u64_shr16(uuid.msb)) ELSE None

\* the identifier read as one 128-bit integer, high word first: x < y
u128_lt(x, y) == u64_lt(x.msb, y.msb) \/ (x.msb = y.msb /\ u64_lt(x.lsb, y.lsb))

\* the counter UUIDBuilder writes below the version: the low 12 bits of msb
UUID_counter(uuid) == uuid.msb[4] % (2 ^ 12)

\* UuidUtils (crate::uuid::builder): the identifier predicates the
\* attribute validators call
UuidUtils_get_time(uuid) == get_time(uuid)

UuidUtils_is_uuid(uuid) == is_uprotocol_uuid(uuid)

\* Result<UUID, UuidConversionError>, msg being the error's message
Ok(v) == [ok |-> TRUE, msg |-> "", value |-> Some(v)]
Err(m) == [ok |-> FALSE, msg |-> m, value |-> None]

\* u64::to_be_bytes and u64::from_be_bytes, a byte being 0..255
to_le_bytes(x) ==
    << x[4] % 256, x[4] \div 256, x[3] % 256, x[3] \div 256,
       x[2] % 256, x[2] \div 256, x[1] % 256, x[1] \div 256 >>

to_be_bytes(x) ==
    << x[1] \div 256, x[1] % 256, x[2] \div 256, x[2] % 256,
       x[3] \div 256, x[3] % 256, x[4] \div 256, x[4] % 256 >>

from_be_bytes(b) ==
    << b[1] * 256 + b[2], b[3] * 256 + b[4], b[5] * 256 + b[6], b[7] * 256 + b[8] >>

from_u64_pair_any_variant(msb, lsb) ==
    IF u64_and(msb, BITMASK_VERSION) # VERSION_CUSTOM
    THEN Err("not a v8 UUID")
    ELSE Ok([msb |-> msb, lsb |-> lsb])

from_u64_pair(msb, lsb) ==
    IF u64_and(msb, BITMASK_VERSION) # VERSION_CUSTOM
    THEN Err("not a v8 UUID")
    ELSE IF u64_and(lsb, BITMASK_VARIANT) # VARIANT_RFC4122
    THEN Err("not an RFC4122 UUID")
    ELSE Ok([msb |-> msb, lsb |-> lsb])

from_bytes(bytes) ==
    LET msb == SubSeq(bytes, 1, 8)
        lsb == SubSeq(bytes, 9, 16)
    IN  from_u64_pair(from_be_bytes(msb), from_be_bytes(lsb))

\* uuid_simd::format_hyphenated(bytes, out, AsciiCase::Lower): two lower-case
\* hexadecimal digits a byte, a hyphen after bytes 4, 6, 8 and 10
HexLower ==
    <<"0", "1", "2", "3", "4", "5", "6", "7", "8", "9", "a", "b", "c", "d", "e", "f">>

RECURSIVE format_hyphenated_from(_, _)
format_hyphenated_from(bytes, i) ==
    IF i > Len(bytes) THEN <<>>
    ELSE <<HexLower[(bytes[i] \div 16) + 1], HexLower[(bytes[i] % 16) + 1]>>
         \o (IF i \in {4, 6, 8, 10} THEN <<"-">> ELSE <<>>)
         \o format_hyphenated_from(bytes, i + 1)

format_hyphenated(bytes) == format_hyphenated_from(bytes, 1)

to_hyphenated_string(uuid) ==
    LET bytes == to_be_bytes(uuid.msb) \o to_be_bytes(uuid.lsb)
    IN  format_hyphenated(bytes)

\* uuid_simd::parse_hyphenated(text, out): 36 characters, hyphens at offsets
\* 8, 13, 18 and 23, hexadecimal digits of either case elsewhere; None is its
\* Err
hex_value(c) ==
    CASE c = "0" -> 0 [] c = "1" -> 1 [] c = "2" -> 2 [] c = "3" -> 3
      [] c = "4" -> 4 [] c = "5" -> 5 [] c = "6" -> 6 [] c = "7" -> 7
      [] c = "8" -> 8 [] c = "9" -> 9
      [] c \in {"a", "A"} -> 10 [] c \in {"b", "B"} -> 11
      [] c \in {"c", "C"} -> 12 [] c \in {"d", "D"} -> 13
      [] c \in {"e", "E"} -> 14 [] c \in {"f", "F"} -> 15
      [] OTHER -> -1

HyphenOffsets == {9, 14, 19, 24}

\* offsets (from 1) of the two digits of byte i in the hyphenated form
digit_offset(i) ==
    2 * i - 1 + Cardinality({h \in {4, 6, 8, 10} : h < i})

parse_hyphenated(text) ==
    IF Len(text) # 36 THEN None
    ELSE IF \E k \in 1..36 : IF k \in HyphenOffsets THEN text[k] # "-"
                                                     ELSE hex_value(text[k]) < 0
    THEN None
    ELSE Some([i \in 1..16 |-> hex_value(text[digit_offset(i)]) * 16
                                 + hex_value(text[digit_offset(i) + 1])])

\* <UUID as FromStr>::from_str; "UUIDError" stands for the text of
\* uuid_simd::Error
from_str(uuid_str) ==
    LET parsed == parse_hyphenated(uuid_str)
    IN  IF is_none(parsed) THEN Err("UUIDError")
        ELSE from_bytes(unwrap(parsed))

\* UuidUtils (crate::uuid::builder): the identifier predicates the
\* identifier validators call
UuidUtils_is_v6(uuid) == u64_and(uuid.msb, BITMASK_VERSION) = <<0, 0, 0, 6 * 2 ^ 12>>

UuidUtils_is_uprotocol(uuid) == is_uprotocol_uuid(uuid)

UuidUtils_is_rf4122(uuid) == is_rfc_variant(uuid)

(***************************************************************************)
(* Generated protobuf enumerations                                         *)
(***************************************************************************)
\* UMessageType::try_from(i32)
UMessageType_try_from(t) ==
    CASE t = 0 -> Some("UmessageTypeUnspecified")
      [] t = 1 -> Some("UmessageTypePublish")
      [] t = 2 -> Some("UmessageTypeRequest")
      [] t = 3 -> Some("UmessageTypeResponse")
      [] OTHER -> None

as_str_name(mt) ==
    CASE mt = "UmessageTypeUnspecified" -> "UMESSAGE_TYPE_UNSPECIFIED"
      [] mt = "UmessageTypePublish" -> "UMESSAGE_TYPE_PUBLISH"
      [] mt = "UmessageTypeRequest" -> "UMESSAGE_TYPE_REQUEST"
      [] mt = "UmessageTypeResponse" -> "UMESSAGE_TYPE_RESPONSE"

\* UMessageType::from_str_name(&str)
UMessageType_from_str_name(name) ==
    CASE name = "pub.v1" -> Some("UmessageTypePublish")
      [] name = "req.v1" -> Some("UmessageTypeRequest")
      [] name = "res.v1" -> Some("UmessageTypeResponse")
      [] OTHER -> None

\* UCode::try_from(i32).is_ok(): OK = 0 .. UNAUTHENTICATED = 16
UCode_try_from_is_ok(cs) == cs \in 0..16

(***************************************************************************)
(* UAttributesValidator: default trait methods                             *)
(***************************************************************************)
UAttributesValidator_validate_ttl_clocked(a) ==
    IF is_some(a.ttl) /\ unwrap(a.ttl) < 1
    THEN Failure("Invalid TTL [" \o ToString(unwrap(a.ttl)) \o "]")
    ELSE IF is_some(a.ttl) /\ now >= unwrap(a.ttl)
    THEN Failure("Payload is expired")
    ELSE Success

UAttributesValidator_validate_ttl(a) ==
    IF is_some(a.ttl) /\ unwrap(a.ttl) < 1
    THEN Failure("Invalid TTL [" \o ToString(unwrap(a.ttl)) \o "]")
    ELSE Success

UAttributesValidator_validate_sink(a) ==
    IF is_some(a.sink) THEN UriValidator_validate(unwrap(a.sink)) ELSE Success

UAttributesValidator_validate_permission_level(a) ==
    IF is_some(a.permission_level) /\ unwrap(a.permission_level) < 1
    THEN Failure("Invalid Permission Level")
    ELSE Success

UAttributesValidator_validate_commstatus(a) ==
    IF is_some(a.commstatus) /\ ~UCode_try_from_is_ok(unwrap(a.commstatus))
    THEN Failure("Invalid Communication Status Code ["
                 \o ToString(unwrap(a.commstatus)) \o "]")
    ELSE Success

UAttributesValidator_validate_reqid(a) ==
    IF is_some(a.reqid) /\ ~UuidUtils_is_uuid(unwrap(a.reqid))
    THEN Failure("Invalid UUID")
    ELSE Success

(***************************************************************************)
(* PublishValidator, RequestValidator, ResponseValidator                   *)
(***************************************************************************)
validate_type_of(expected, a) ==
    LET mt == UMessageType_try_from(a.type)
    IN  IF is_some(mt)
        THEN IF unwrap(mt) = expected THEN Success
             ELSE Failure("Wrong Attribute Type [" \o as_str_name(unwrap(mt)) \o "]")
        ELSE Failure("Unknown Attribute Type [" \o ToString(a.type) \o "]")

PublishValidator_validate_type_lenient(a) ==
    LET mt == UMessageType_try_from(a.type)
    IN  IF is_some(mt) /\ unwrap(mt) \in {"UmessageTypeRequest", "UmessageTypeResponse"}
        THEN Failure("Wrong Attribute Type [" \o as_str_name(unwrap(mt)) \o "]")
        ELSE Success

PublishValidator_validate_type(a) == validate_type_of("UmessageTypePublish", a)

RequestValidator_validate_type(a) == validate_type_of("UmessageTypeRequest", a)

RequestValidator_validate_sink(a) ==
    IF is_some(a.sink)
    THEN UriValidator_validate_rpc_response(unwrap(a.sink))
    ELSE Failure("Missing Sink")

RequestValidator_validate_ttl_optional(a) ==
    IF is_some(a.ttl)
    THEN IF unwrap(a.ttl) > 0 THEN Success
         ELSE Failure("Invalid TTL [" \o ToString(unwrap(a.ttl)) \o "]")
    ELSE Success

RequestValidator_validate_ttl(a) ==
    IF is_some(a.ttl)
    THEN IF unwrap(a.ttl) > 0 THEN Success
         ELSE Failure("Invalid TTL [" \o ToString(unwrap(a.ttl)) \o "]")
    ELSE Failure("Missing TTL")

ResponseValidator_validate_type(a) == validate_type_of("UmessageTypeResponse", a)

ResponseValidator_validate_sink_plain(a) ==
    IF is_some(a.sink)
    THEN UriValidator_validate(unwrap(a.sink))
    ELSE Failure("Missing Sink")

ResponseValidator_validate_sink(a) ==
    IF is_some(a.sink)
    THEN UriValidator_validate_rpc_method(unwrap(a.sink))
    ELSE Failure("Missing Sink")

ResponseValidator_validate_reqid_inherited(a) ==
    IF is_some(a.reqid) /\ ~UuidUtils_is_uuid(unwrap(a.reqid))
    THEN Failure("Invalid UUID")
    ELSE Success

ResponseValidator_validate_reqid(a) ==
    IF is_some(a.reqid) /\ unwrap(a.reqid) = Uuid_default
    THEN Failure("Missing correlation Id")
    ELSE IF is_some(a.reqid) /\ UuidUtils_is_uuid(unwrap(a.reqid))
    THEN Success
    ELSE Failure("Missing correlation Id")

(***************************************************************************)
(* Dynamic dispatch over Box<dyn UAttributesValidator>                     *)
(***************************************************************************)
Validators == {"Publish", "Request", "Response"}

validate_type(v, a) ==
    CASE v = "Publish" -> PublishValidator_validate_type(a)
      [] v = "Request" -> RequestValidator_validate_type(a)
      [] v = "Response" -> ResponseValidator_validate_type(a)

validate_ttl(v, a) ==
    IF v = "Request" THEN RequestValidator_validate_ttl(a)
    ELSE UAttributesValidator_validate_ttl(a)

validate_sink(v, a) ==
    CASE v = "Publish" -> UAttributesValidator_validate_sink(a)
      [] v = "Request" -> RequestValidator_validate_sink(a)
      [] v = "Response" -> ResponseValidator_validate_sink(a)

validate_commstatus(v, a) == UAttributesValidator_validate_commstatus(a)

validate_permission_level(v, a) == UAttributesValidator_validate_permission_level(a)

validate_reqid(v, a) ==
    IF v = "Response" THEN ResponseValidator_validate_reqid(a)
    ELSE UAttributesValidator_validate_reqid(a)

(***************************************************************************)
(* UAttributesValidator::validate                                          *)
(***************************************************************************)
\* the vec![..] of the six sub-check results
sub_checks(v, a) ==
    << validate_type(v, a),
       validate_ttl(v, a),
       validate_sink(v, a),
       validate_commstatus(v, a),
       validate_permission_level(v, a),
       validate_reqid(v, a) >>

\* .into_iter().filter_map(Result::err).map(|e| e.to_string()).collect()
RECURSIVE filter_map_err(_)
filter_map_err(rs) ==
    IF rs = <<>> THEN <<>>
    ELSE IF is_failure(Head(rs)) THEN <<Head(rs).msg>> \o filter_map_err(Tail(rs))
    ELSE filter_map_err(Tail(rs))

\* [String]::join(sep)
RECURSIVE join(_, _)
join(strs, sep) ==
    IF strs = <<>> THEN ""
    ELSE IF Len(strs) = 1 THEN strs[1]
    ELSE strs[1] \o sep \o join(Tail(strs), sep)

RECURSIVE first_err(_)
first_err(rs) ==
    IF rs = <<>> THEN <<>>
    ELSE IF is_failure(Head(rs)) THEN <<Head(rs).msg>>
    ELSE first_err(Tail(rs))

UAttributesValidator_validate_short_circuit(v, a) ==
    LET error_message == join(first_err(sub_checks(v, a)), "; ")
    IN  IF error_message = "" THEN Success ELSE Failure(error_message)

UAttributesValidator_validate(v, a) ==
    LET error_message == join(filter_map_err(sub_checks(v, a)), "; ")
    IN  IF error_message = "" THEN Success ELSE Failure(error_message)

(***************************************************************************)
(* UuidValidator: Invalid, UUIDv6 and UUIDv8                               *)
(***************************************************************************)
UuidValidators == {"Invalid", "UUIDv6", "UUIDv8"}

UuidValidator_validate_time(uuid) ==
    IF /\ is_some(UuidUtils_get_time(uuid))
       /\ u64_lt(u64_from(0), unwrap(UuidUtils_get_time(uuid)))
    THEN Success
    ELSE Failure("Invalid UUID Time")

InvalidValidator_validate_variant(uuid) == Failure("Invalid UUID Variant")

InvalidValidator_validate_version(uuid) == Failure("Invalid UUID Version")

UUIDv6Validator_validate_variant(uuid) ==
    IF UuidUtils_is_rf4122(uuid) THEN Success ELSE Failure("Invalid UUIDv6 variant")

UUIDv6Validator_validate_version(uuid) ==
    IF UuidUtils_is_v6(uuid) THEN Success ELSE Failure("Not a UUIDv6 uuid")

UUIDv8Validator_validate_variant(uuid) == Success

UUIDv8Validator_validate_version(uuid) ==
    IF UuidUtils_is_uprotocol(uuid) THEN Success ELSE Failure("Not a UUIDv8 uuid")

\* dyn UuidValidator: the method of the validator v
uuid_validate_version(v, uuid) ==
    CASE v = "Invalid" -> InvalidValidator_validate_version(uuid)
      [] v = "UUIDv6" -> UUIDv6Validator_validate_version(uuid)
      [] v = "UUIDv8" -> UUIDv8Validator_validate_version(uuid)

uuid_validate_variant(v, uuid) ==
    CASE v = "Invalid" -> InvalidValidator_validate_variant(uuid)
      [] v = "UUIDv6" -> UUIDv6Validator_validate_variant(uuid)
      [] v = "UUIDv8" -> UUIDv8Validator_validate_variant(uuid)

\* the vec![..] of the three sub-check results
uuid_sub_checks(v, uuid) ==
    << uuid_validate_version(v, uuid),
       UuidValidator_validate_time(uuid),
       uuid_validate_variant(v, uuid) >>

UuidValidator_validate_short_circuit(v, uuid) ==
    LET error_message == join(first_err(uuid_sub_checks(v, uuid)), "; ")
    IN  IF error_message = "" THEN Success ELSE Failure(error_message)

UuidValidator_validate(v, uuid) ==
    LET error_message == join(filter_map_err(uuid_sub_checks(v, uuid)), "; ")
    IN  IF error_message = "" THEN Success ELSE Failure(error_message)

UuidValidators_get_validator(uuid) ==
    IF UuidUtils_is_v6(uuid) THEN "UUIDv6"
    ELSE IF UuidUtils_is_uprotocol(uuid) THEN "UUIDv8"
    ELSE "Invalid"

(***************************************************************************)
(* UAttributesValidator::is_expired                                        *)
(*   clock            Result of SystemTime::now().duration_since(EPOCH):   *)
(*                    None is the Err branch, Some(ms) the reading         *)
(*   overflow_checks  whether the build traps integer overflow (debug) or  *)
(*                    wraps (release)                                      *)
(***************************************************************************)
Returned(r) == [ok |-> r.ok, msg |-> r.msg, panic |-> FALSE]
Panicked(m) == [ok |-> FALSE, msg |-> m, panic |-> TRUE]

is_expired(a, clock, overflow_checks) ==
    IF is_some(a.ttl) /\ unwrap(a.ttl) <= 0 THEN Returned(Success)
    ELSE
      LET ttl == IF is_some(a.ttl) THEN unwrap(a.ttl) ELSE 0
      IN  IF is_some(a.id) /\ is_some(UuidUtils_get_time(unwrap(a.id)))
          THEN
            LET time == unwrap(UuidUtils_get_time(unwrap(a.id)))
            IN  IF is_none(clock)
                THEN Returned(Failure("second time provided was later than self"))
                ELSE IF u64_lt(unwrap(clock), time) /\ overflow_checks
                THEN Panicked("attempt to subtract with overflow")
                ELSE
                  LET delta == wrapping_sub(unwrap(clock), time)
                  IN  IF ttl <= 0 THEN Returned(Success)
                      ELSE IF u64_ge(delta, u64_from(ttl))
                      THEN Returned(Failure("Payload is expired"))
                      ELSE Returned(Success)
          ELSE Returned(Success)

(***************************************************************************)
(* Role selection                                                          *)
(***************************************************************************)
Validators_get_validator_strict(a) ==
    LET mt == UMessageType_try_from(a.type)
    IN  IF is_some(mt) /\ unwrap(mt) = "UmessageTypeRequest" THEN "Request"
        ELSE IF is_some(mt) /\ unwrap(mt) = "UmessageTypeResponse" THEN "Response"
        ELSE IF is_some(mt) /\ unwrap(mt) = "UmessageTypePublish" THEN "Publish"
        ELSE "Response"

Validators_get_validator(a) ==
    LET mt == UMessageType_try_from(a.type)
    IN  IF is_some(mt) /\ unwrap(mt) = "UmessageTypePublish" THEN "Publish"
        ELSE IF is_some(mt) /\ unwrap(mt) = "UmessageTypeRequest" THEN "Request"
        ELSE IF is_some(mt) /\ unwrap(mt) = "UmessageTypeResponse" THEN "Response"
        ELSE "Publish"

CloudEventValidators_get_validator(ce) ==
    LET message_type == UMessageType_from_str_name(ce.ty)
    IN  IF is_some(message_type) /\ unwrap(message_type) = "UmessageTypeResponse"
        THEN "Response"
        ELSE IF is_some(message_type) /\ unwrap(message_type) = "UmessageTypeRequest"
        THEN "Request"
        ELSE "Publish"

(***************************************************************************)
(* CloudEventValidator: address checks                                     *)
(***************************************************************************)
validate_entity_uri(u) == UriValidator_validate(u)

validate_topic_uri_any_message(u) ==
    LET res == validate_entity_uri(u)
    IN  IF is_failure(res) THEN res
        ELSE IF is_some(u.resource) /\ str_is_empty(trim(unwrap(u.resource).name))
        THEN Failure("UriPart is missing uResource name.")
        ELSE Success

validate_topic_uri(u) ==
    LET res == validate_entity_uri(u)
    IN  IF is_failure(res) THEN res
        ELSE IF is_some(u.resource)
        THEN IF str_is_empty(trim(unwrap(u.resource).name))
             THEN Failure("UriPart is missing uResource name.")
             ELSE IF is_none(unwrap(u.resource).message)
             THEN Failure("UriPart is missing Message information.")
             ELSE Success
        ELSE Success

validate_rpc_topic_uri_containing(u) ==
    LET res == validate_entity_uri(u)
    IN  IF is_failure(res)
        THEN Failure("Invalid RPC uri application response topic. " \o res.msg)
        ELSE IF is_rpc_response(u)
        THEN Success
        ELSE Failure("Invalid RPC uri application response topic. UriPart is missing rpc.response.")

validate_rpc_topic_uri(u) ==
    LET res == validate_entity_uri(u)
    IN  IF is_failure(res)
        THEN Failure("Invalid RPC uri application response topic. " \o res.msg)
        ELSE IF is_some(u.resource)
        THEN IF /\ unwrap(u.resource).name = <<"r", "p", "c">>
                /\ is_some(unwrap(u.resource).instance)
                /\ unwrap(unwrap(u.resource).instance)
                      = <<"r", "e", "s", "p", "o", "n", "s", "e">>
             THEN Success
             ELSE Failure("Invalid RPC uri application response topic. UriPart is missing rpc.response.")
        ELSE Success

(***************************************************************************)
(* Explored inputs                                                         *)
(***************************************************************************)
str_rpc == <<"r", "p", "c">>
str_response == <<"r", "e", "s", "p", "o", "n", "s", "e">>
str_host == <<"v", "c", "u">>
str_app == <<"a", "p", "p">>
str_door == <<"d", "o", "o", "r">>
str_echo == <<"e", "c", "h", "o">>

Remotes ==
    { [kind |-> "Name", value |-> str_host],
      [kind |-> "Ip", value |-> <<"1", "0">>],
      [kind |-> "Id", value |-> <<"7">>] }

UAuthoritySet == { [remote |-> r] : r \in {None} \cup { Some(x) : x \in Remotes } }

UEntitySet ==
    { [name |-> n, id |-> i] :
        n \in { <<>>, <<" ">>, str_app },
        i \in { None, Some(5) } }

UResourceSet ==
    { [name |-> n, instance |-> inst, id |-> i, message |-> m] :
        n \in { <<>>, str_rpc, <<"x">> \o str_rpc, str_door },
        inst \in { None, Some(<<>>), Some(<<" ">>), Some(str_response),
                   Some(str_response \o <<"2">>), Some(str_echo) },
        i \in { None, Some(0), Some(7) },
        m \in { None, Some(str_door) } }

UUriSet ==
    { [authority |-> au, entity |-> e, resource |-> r] :
        au \in {None} \cup { Some(x) : x \in UAuthoritySet },
        e \in {None} \cup { Some(x) : x \in UEntitySet },
        r \in {None} \cup { Some(x) : x \in UResourceSet } }

UUri_default == [authority |-> None, entity |-> None, resource |-> None]

remote_uri(resource) ==
    [authority |-> Some([remote |-> Some([kind |-> "Name", value |-> str_host])]),
     entity |-> Some([name |-> str_app, id |-> None]),
     resource |-> Some(resource)]

local_uri(resource) ==
    [authority |-> Some([remote |-> None]),
     entity |-> Some([name |-> str_app, id |-> None]),
     resource |-> Some(resource)]

rpc_response_resource ==
    [name |-> str_rpc, instance |-> Some(str_response), id |-> Some(0), message |-> None]
rpc_echo_resource ==
    [name |-> str_rpc, instance |-> Some(str_echo), id |-> None, message |-> None]
rpc_id_resource ==
    [name |-> str_rpc, instance |-> None, id |-> Some(7), message |-> None]
door_resource ==
    [name |-> str_door, instance |-> None, id |-> None, message |-> Some(str_door)]

\* the sinks carried by the explored attributes
SinkUris ==
    { UUri_default,
      local_uri(rpc_response_resource),
      remote_uri(rpc_response_resource),
      remote_uri(rpc_echo_resource),
      remote_uri(rpc_id_resource),
      remote_uri(door_resource) }

\* a uProtocol (v8) identifier created at millisecond t
uuid_v8(t) == [msb |-> <<0, 0, t, 8 * 2 ^ 12>>, lsb |-> <<2 * 2 ^ 14, 0, 0, 1>>]
\* a random (v4) identifier
uuid_v4 == [msb |-> <<1, 2, 3, 4 * 2 ^ 12 + 5>>, lsb |-> <<2 * 2 ^ 14 + 6, 7, 8, 9>>]

UAttributesSet ==
    { [type |-> ty, ttl |-> ttl, sink |-> sink, commstatus |-> cs,
       permission_level |-> pl, reqid |-> reqid, id |-> id] :
        ty \in 0..4,
        ttl \in {None} \cup { Some(t) : t \in -1..MaxTtl },
        sink \in {None} \cup { Some(u) : u \in SinkUris },
        cs \in { None, Some(3), Some(-42) },
        pl \in { None, Some(0), Some(2) },
        reqid \in { None, Some(Uuid_default), Some(uuid_v8(1)), Some(uuid_v4) },
        id \in { None, Some(uuid_v8(1)) } }

\* a v8 version nibble with a variant other than RFC 4122
uuid_bad_variant == [msb |-> <<0, 0, 1, 8 * 2 ^ 12>>, lsb |-> <<1 * 2 ^ 14, 0, 0, 1>>]

\* the attributes handed to is_expired: every ttl against every kind of id
ExpiryAttributesSet ==
    { [type |-> ty, ttl |-> ttl, sink |-> sink, commstatus |-> None,
       permission_level |-> None, reqid |-> reqid, id |-> id] :
        ty \in 1..3,
        ttl \in {None} \cup { Some(t) : t \in -1..MaxTtl },
        sink \in { None, Some(remote_uri(rpc_response_resource)) },
        reqid \in { None, Some(uuid_v8(1)) },
        id \in {None, Some(Uuid_default), Some(uuid_v4), Some(uuid_bad_variant)}
               \cup { Some(uuid_v8(t)) : t \in 1..MaxTime } }

\* identifiers assembled from two words, the fields of UUID being public:
\* the version field (16 low bits of msb) and the 16 high bits of lsb take
\* every pattern around the checked bits
VersionFields ==
    {0, 4 * 2 ^ 12, 6 * 2 ^ 12 + 1504, 8 * 2 ^ 12, 8 * 2 ^ 12 + 1, 12 * 2 ^ 12, LimbBase - 1}

VariantFields ==
    {0, 2 ^ 14, 2 ^ 14 + 2679, 2 * 2 ^ 14, 2 * 2 ^ 14 + 16, 3 * 2 ^ 14 - 1, 3 * 2 ^ 14}

MsbSet ==
    { <<t[1], t[2], t[3], v>> :
        t \in { <<0, 0, n>> : n \in 0..MaxTime } \cup { <<397, 21646, 43232>> },
        v \in VersionFields }

LsbSet ==
    { <<h, r[1], r[1], r[2]>> : h \in VariantFields, r \in { <<0, 0>>, <<4112, 6682>> } }

UuidSet == [msb : MsbSet, lsb : LsbSet]

to_ascii_uppercase(c) ==
    CASE c = "a" -> "A" [] c = "b" -> "B" [] c = "c" -> "C"
      [] c = "d" -> "D" [] c = "e" -> "E" [] c = "f" -> "F"
      [] OTHER -> c

\* the texts handed to from_str: the hyphenated form of an identifier in
\* lower and in upper case, and three malformed variants of it
TextKinds == {"lower", "upper", "short", "nonhex", "nohyphen"}

uuid_text(u, kind) ==
    LET text == to_hyphenated_string(u)
    IN  CASE kind = "lower" -> text
          [] kind = "upper" -> [k \in 1..Len(text) |-> to_ascii_uppercase(text[k])]
          [] kind = "short" -> SubSeq(text, 1, Len(text) - 1)
          [] kind = "nonhex" -> [text EXCEPT ![1] = "g"]
          [] kind = "nohyphen" -> [text EXCEPT ![9] = "0"]

UAttributes_default ==
    [type |-> 0, ttl |-> None, sink |-> None, commstatus |-> None,
     permission_level |-> None, reqid |-> None, id |-> None]

\* the attributes shared by the concurrent callers
ConcAttributesSet ==
    { [UAttributes_default EXCEPT !.type = 1, !.ttl = Some(1), !.id = Some(uuid_v8(1))],
      [UAttributes_default EXCEPT !.type = 2, !.commstatus = Some(-42),
                                  !.id = Some(uuid_v8(MaxTime))],
      [UAttributes_default EXCEPT !.type = 3, !.ttl = Some(0),
                                  !.sink = Some(remote_uri(rpc_response_resource)),
                                  !.reqid = Some(uuid_v8(1))],
      [UAttributes_default EXCEPT !.type = 0, !.ttl = Some(MaxTtl),
                                  !.id = Some(uuid_v8(1))] }

\* the attributes held by caller t alone
OwnAttributes(t) ==
    [UAttributes_default EXCEPT !.type = 2, !.ttl = Some(t), !.id = Some(uuid_v8(1))]

\* the address texts carried by the explored events
UriTexts ==
    { "//vcu/app//rpc.response", "//vcu/app//rpc.echo", "//vcu/app//door#door",
      "//vcu/app//door", "/app//door#door", "/" }

\* LongUriSerializer::deserialize on the texts above
LongUriSerializer_deserialize(text) ==
    CASE text = "//vcu/app//rpc.response" -> remote_uri(rpc_response_resource)
      [] text = "//vcu/app//rpc.echo" -> remote_uri(rpc_echo_resource)
      [] text = "//vcu/app//door#door" -> remote_uri(door_resource)
      [] text = "//vcu/app//door" -> remote_uri([door_resource EXCEPT !.message = None])
      [] text = "/app//door#door" -> local_uri(door_resource)
      [] OTHER -> UUri_default

\* impl Display for UUri: the long form of the address
UUri_to_string(u) == CHOOSE text \in UriTexts : LongUriSerializer_deserialize(text) = u

str_testme == <<"t", "e", "s", "t", "m", "e">>

\* the id texts carried by the explored events
EventIds == { uuid_text(uuid_v8(1), "lower"), uuid_text(uuid_v4, "lower"), str_testme }

CloudEvent_default ==
    [specversion |-> "1.0", id |-> str_testme, source |-> "/", ty |-> "", sink |-> None]

CloudEventSet ==
    { [CloudEvent_default EXCEPT !.ty = t] : t \in { "pub.v1", "req.v1", "res.v1", "lala.v1", "" } }

\* the events handed to validate
EventSet ==
    [specversion : {"1.0", "0.3"}, id : EventIds, source : UriTexts,
     ty : { "pub.v1", "req.v1", "res.v1", "lala.v1", "" },
     sink : {None} \cup { Some(text) : text \in UriTexts }]

(***************************************************************************)
(* CloudEventValidator: Publish, Notification, Request and Response        *)
(***************************************************************************)
\* format!("{}", s) of a text held as a sequence of characters
RECURSIVE display(_)
display(s) == IF s = <<>> THEN "" ELSE Head(s) \o display(Tail(s))

UCloudEventUtils_is_cloud_event_id(ce) ==
    LET parsed == from_str(ce.id)
    IN  parsed.ok /\ UuidUtils_is_uprotocol(unwrap(parsed.value))

UCloudEventUtils_get_sink(ce) == ce.sink

CloudEventValidator_validate_version(ce) ==
    IF ce.specversion = "1.0" THEN Success
    ELSE Failure("Invalid CloudEvent version [" \o ce.specversion
                    \o "]. CloudEvent version must be 1.0.")

CloudEventValidator_validate_id(ce) ==
    IF UCloudEventUtils_is_cloud_event_id(ce) THEN Success
    ELSE Failure("Invalid CloudEvent Id [" \o display(ce.id)
                    \o "]. CloudEvent Id must be of type UUIDv8.")

\* the default validate_sink of the trait, used by the Publish validator
CloudEventValidator_validate_sink(ce) ==
    IF is_some(UCloudEventUtils_get_sink(ce))
    THEN LET sink == unwrap(UCloudEventUtils_get_sink(ce))
             res == validate_entity_uri(LongUriSerializer_deserialize(sink))
         IN  IF is_failure(res)
             THEN Failure("Invalid CloudEvent sink [" \o sink \o "]. " \o res.msg)
             ELSE Success
    ELSE Success

CloudEventValidator_validate_rpc_method(u) ==
    LET res == validate_entity_uri(u)
    IN  IF is_failure(res) THEN Failure("Invalid RPC method uri. " \o res.msg)
        ELSE IF ~is_rpc_method(u)
        THEN Failure("Invalid RPC method uri. UriPart should be the method to be called, or method from response.")
        ELSE Success

CloudEventValidatorSet == {"Publish", "Notification", "Request", "Response"}

CloudEvent_PublishValidator_validate_source(ce) ==
    LET source == LongUriSerializer_deserialize(ce.source)
        res == validate_topic_uri(source)
    IN  IF is_failure(res)
        THEN Failure("Invalid Publish type CloudEvent source [" \o UUri_to_string(source)
                        \o "]. " \o res.msg)
        ELSE Success

CloudEvent_PublishValidator_validate_type(ce) ==
    LET event_type == UMessageType_from_str_name(ce.ty)
    IN  IF is_some(event_type) /\ unwrap(event_type) = "UmessageTypePublish"
        THEN Success
        ELSE Failure("Invalid CloudEvent type [" \o ce.ty
                        \o "]. CloudEvent of type Publish must have a type of 'pub.v1'")

CloudEvent_NotificationValidator_validate_source(ce) ==
    CloudEvent_PublishValidator_validate_source(ce)

CloudEvent_NotificationValidator_validate_type(ce) ==
    CloudEvent_PublishValidator_validate_type(ce)

CloudEvent_NotificationValidator_validate_sink_silent(ce) ==
    IF is_some(UCloudEventUtils_get_sink(ce))
    THEN LET sink == unwrap(UCloudEventUtils_get_sink(ce))
             res == validate_entity_uri(LongUriSerializer_deserialize(sink))
         IN  IF is_failure(res)
             THEN Failure("Invalid Notification type CloudEvent sink [" \o sink
                             \o "]. " \o res.msg)
             ELSE Success
    ELSE Failure("")

CloudEvent_NotificationValidator_validate_sink(ce) ==
    IF is_some(UCloudEventUtils_get_sink(ce))
    THEN LET sink == unwrap(UCloudEventUtils_get_sink(ce))
             res == validate_entity_uri(LongUriSerializer_deserialize(sink))
         IN  IF is_failure(res)
             THEN Failure("Invalid Notification type CloudEvent sink [" \o sink
                             \o "]. " \o res.msg)
             ELSE Success
    ELSE Failure("Invalid CloudEvent sink. Notification CloudEvent sink must be an uri.")

CloudEvent_RequestValidator_validate_source(ce) ==
    LET source == ce.source
        res == validate_rpc_topic_uri(LongUriSerializer_deserialize(source))
    IN  IF is_failure(res)
        THEN Failure("Invalid RPC Request CloudEvent source [" \o source \o "]. " \o res.msg)
        ELSE Success

CloudEvent_RequestValidator_validate_sink_optional(ce) ==
    IF is_some(UCloudEventUtils_get_sink(ce))
    THEN LET sink == unwrap(UCloudEventUtils_get_sink(ce))
             res == CloudEventValidator_validate_rpc_method(LongUriSerializer_deserialize(sink))
         IN  IF is_failure(res)
             THEN Failure("Invalid RPC Request CloudEvent sink [" \o sink \o "]. " \o res.msg)
             ELSE Success
    ELSE Success

CloudEvent_RequestValidator_validate_sink(ce) ==
    IF is_some(UCloudEventUtils_get_sink(ce))
    THEN LET sink == unwrap(UCloudEventUtils_get_sink(ce))
             res == CloudEventValidator_validate_rpc_method(LongUriSerializer_deserialize(sink))
         IN  IF is_failure(res)
             THEN Failure("Invalid RPC Request CloudEvent sink [" \o sink \o "]. " \o res.msg)
             ELSE Success
    ELSE Failure("Invalid RPC Request CloudEvent sink. Request CloudEvent sink must be uri for the method to be called.")

CloudEvent_RequestValidator_validate_type(ce) ==
    LET event_type == UMessageType_from_str_name(ce.ty)
    IN  IF is_some(event_type) /\ unwrap(event_type) = "UmessageTypeRequest"
        THEN Success
        ELSE Failure("Invalid CloudEvent type [" \o ce.ty
                        \o "]. CloudEvent of type Request must have a type of 'req.v1'")

CloudEvent_ResponseValidator_validate_source(ce) ==
    LET source == ce.source
        res == CloudEventValidator_validate_rpc_method(LongUriSerializer_deserialize(source))
    IN  IF is_failure(res)
        THEN Failure("Invalid RPC Response CloudEvent source [" \o source \o "]. " \o res.msg)
        ELSE Success

CloudEvent_ResponseValidator_validate_sink(ce) ==
    IF is_some(UCloudEventUtils_get_sink(ce))
    THEN LET sink == unwrap(UCloudEventUtils_get_sink(ce))
             res == validate_rpc_topic_uri(LongUriSerializer_deserialize(sink))
         IN  IF is_failure(res)
             THEN Failure("Invalid RPC Response CloudEvent sink [" \o sink \o "]. " \o res.msg)
             ELSE Success
    ELSE Failure("Invalid RPC Response CloudEvent sink. Response CloudEvent sink must be uri of the destination of the response.")

CloudEvent_ResponseValidator_validate_type(ce) ==
    LET event_type == UMessageType_from_str_name(ce.ty)
    IN  IF is_some(event_type) /\ unwrap(event_type) = "UmessageTypeResponse"
        THEN Success
        ELSE Failure("Invalid CloudEvent type [" \o ce.ty
                        \o "]. CloudEvent of type Response must have a type of 'res.v1'")

\* self.validate_source(..), self.validate_type(..), self.validate_sink(..)
\* on the validator v
cloud_event_validate_source(v, ce) ==
    CASE v = "Publish" -> CloudEvent_PublishValidator_validate_source(ce)
      [] v = "Notification" -> CloudEvent_NotificationValidator_validate_source(ce)
      [] v = "Request" -> CloudEvent_RequestValidator_validate_source(ce)
      [] v = "Response" -> CloudEvent_ResponseValidator_validate_source(ce)

cloud_event_validate_type(v, ce) ==
    CASE v = "Publish" -> CloudEvent_PublishValidator_validate_type(ce)
      [] v = "Notification" -> CloudEvent_NotificationValidator_validate_type(ce)
      [] v = "Request" -> CloudEvent_RequestValidator_validate_type(ce)
      [] v = "Response" -> CloudEvent_ResponseValidator_validate_type(ce)

cloud_event_validate_sink(v, ce) ==
    CASE v = "Publish" -> CloudEventValidator_validate_sink(ce)
      [] v = "Notification" -> CloudEvent_NotificationValidator_validate_sink(ce)
      [] v = "Request" -> CloudEvent_RequestValidator_validate_sink(ce)
      [] v = "Response" -> CloudEvent_ResponseValidator_validate_sink(ce)

cloud_event_sub_checks(v, ce) ==
    << CloudEventValidator_validate_version(ce),
       CloudEventValidator_validate_id(ce),
       cloud_event_validate_source(v, ce),
       cloud_event_validate_type(v, ce),
       cloud_event_validate_sink(v, ce) >>

\* UStatus::ok() and UStatus::fail_with_msg_and_reason(msg, code)
UStatus_ok == [ok |-> TRUE, msg |-> "", code |-> "OK"]

UStatus_fail_with_msg_and_reason(msg, code) == [ok |-> FALSE, msg |-> msg, code |-> code]

CloudEventValidator_validate_short_circuit(v, ce) ==
    LET error_message == join(first_err(cloud_event_sub_checks(v, ce)), " ")
    IN  IF error_message = "" THEN UStatus_ok
        ELSE UStatus_fail_with_msg_and_reason(error_message, "InvalidArgument")

CloudEventValidator_validate(v, ce) ==
    LET error_message == join(filter_map_err(cloud_event_sub_checks(v, ce)), " ")
    IN  IF error_message = "" THEN UStatus_ok
        ELSE UStatus_fail_with_msg_and_reason(error_message, "InvalidArgument")

\* the identifiers an identifier is compared with
ComparedSet == { u \in UuidSet : is_uprotocol_uuid(u) } \cup {uuid_v4, Uuid_default}

Clocks == {None} \cup { Some(u64_from(n)) : n \in 0..MaxClock }

(***************************************************************************)
(* State machine: a caller holding one value applies the operations to it  *)
(***************************************************************************)
\* value is the value returned on success (an identifier, a text, a time or,
\* for a predicate, its verdict), input the argument when it is not one of the
\* variables, after the calls whose result the argument was taken from,
\* earlier the outcome of the caller's previous call of the operation
NoResult ==
    [op |-> "none", validator |-> "none", ok |-> TRUE, msg |-> "",
     panic |-> FALSE, checks |-> <<>>, clock |-> None, value |-> None,
     input |-> None, after |-> <<>>, code |-> "none", earlier |-> None]

\* callers sharing one &UAttributes
Threads == 1..NumThreads

\* a caller: own is the attributes value it holds itself, arg says whether a
\* call reads the shared value or the caller's own, results is the vec![..]
\* being built and i the sub-check to evaluate next
NoCall ==
    [pc |-> "idle", op |-> "none", arg |-> "none", validator |-> "none", i |-> 0,
     results |-> <<>>, ok |-> TRUE, msg |-> "", panic |-> FALSE,
     own |-> UAttributes_default]

NoCalls == [t \in Threads |-> NoCall]

InitAttributes ==
    /\ attributes \in UAttributesSet
    /\ uri = UUri_default
    /\ cloud_event = CloudEvent_default
    /\ uproto_uuid = Uuid_default
    /\ result = NoResult
    /\ calls = NoCalls
    /\ now = 0

InitCloudEvent ==
    /\ attributes = UAttributes_default
    /\ uri = UUri_default
    /\ cloud_event \in CloudEventSet
    /\ uproto_uuid = Uuid_default
    /\ result = NoResult
    /\ calls = NoCalls
    /\ now = 0

InitExpired ==
    /\ attributes \in ExpiryAttributesSet
    /\ uri = UUri_default
    /\ cloud_event = CloudEvent_default
    /\ uproto_uuid = Uuid_default
    /\ result = NoResult
    /\ calls = NoCalls
    /\ now = 0

InitUri ==
    /\ attributes = UAttributes_default
    /\ uri \in UUriSet
    /\ cloud_event = CloudEvent_default
    /\ uproto_uuid = Uuid_default
    /\ result = NoResult
    /\ calls = NoCalls
    /\ now = 0

Init == InitAttributes \/ InitCloudEvent

InitEvent ==
    /\ attributes = UAttributes_default
    /\ uri = UUri_default
    /\ cloud_event \in EventSet
    /\ uproto_uuid = Uuid_default
    /\ result = NoResult
    /\ calls = NoCalls
    /\ now = 0

\* Validators::get_validator(&attributes)
GetValidator ==
    /\ result.op = "none"
    /\ result' = [NoResult EXCEPT !.op = "get_validator",
                                  !.validator = Validators_get_validator(attributes)]
    /\ UNCHANGED <<attributes, uri, cloud_event, uproto_uuid, calls, now>>

\* CloudEventValidators::get_validator(&cloud_event)
CloudEventGetValidator ==
    /\ result.op = "none"
    /\ result' = [NoResult EXCEPT !.op = "cloud_event_get_validator",
                                  !.validator = CloudEventValidators_get_validator(cloud_event)]
    /\ UNCHANGED <<attributes, uri, cloud_event, uproto_uuid, calls, now>>

\* validator.validate(&attributes), the validator being any of the three
Validate(v) ==
    /\ result.op = "none"
    /\ LET r == UAttributesValidator_validate(v, attributes)
       IN  result' = [NoResult EXCEPT !.op = "validate", !.validator = v,
                                      !.ok = r.ok, !.msg = r.msg,
                                      !.checks = sub_checks(v, attributes)]
    /\ UNCHANGED <<attributes, uri, cloud_event, uproto_uuid, calls, now>>

\* validator.is_expired(&attributes)
IsExpired(clock, overflow_checks) ==
    /\ result.op = "none"
    /\ LET r == is_expired(attributes, clock, overflow_checks)
       IN  result' = [NoResult EXCEPT !.op = "is_expired",
                                      !.ok = r.ok, !.msg = r.msg, !.panic = r.panic,
                                      !.clock = clock]
    /\ UNCHANGED <<attributes, uri, cloud_event, uproto_uuid, calls, now>>

Next ==
    \/ GetValidator
    \/ CloudEventGetValidator
    \/ \E v \in Validators : Validate(v)

Spec == Init /\ [][Next]_vars

\* validator.is_expired(&attributes) once more, by the same build, when the
\* clock reads the same or later
IsExpiredLater(clock, overflow_checks) ==
    /\ result.op = "is_expired"
    /\ result.earlier = None
    /\ ~result.panic
    /\ result.clock # None /\ clock # None
    /\ u64_ge(unwrap(clock), unwrap(result.clock))
    /\ is_expired(attributes, result.clock, overflow_checks)
          = [ok |-> result.ok, msg |-> result.msg, panic |-> result.panic]
    /\ LET r == is_expired(attributes, clock, overflow_checks)
       IN  result' = [NoResult EXCEPT !.op = "is_expired",
                                      !.ok = r.ok, !.msg = r.msg, !.panic = r.panic,
                                      !.clock = clock,
                                      !.earlier = Some([clock |-> result.clock,
                                                        ok |-> result.ok,
                                                        msg |-> result.msg])]
    /\ UNCHANGED <<attributes, uri, cloud_event, uproto_uuid, calls, now>>

NextExpired ==
    \/ \E clock \in Clocks, overflow_checks \in BOOLEAN : IsExpired(clock, overflow_checks)
    \/ \E clock \in Clocks, overflow_checks \in BOOLEAN : IsExpiredLater(clock, overflow_checks)

SpecExpired == InitExpired /\ [][NextExpired]_vars

\* UriValidator::validate(&uri)
UriValidate ==
    /\ result.op = "none"
    /\ LET r == UriValidator_validate(uri)
       IN  result' = [NoResult EXCEPT !.op = "uri_validate", !.ok = r.ok, !.msg = r.msg]
    /\ UNCHANGED <<attributes, uri, cloud_event, uproto_uuid, calls, now>>

\* UriValidator::validate_rpc_method(&uri)
UriValidateRpcMethod ==
    /\ result.op = "none"
    /\ LET r == UriValidator_validate_rpc_method(uri)
       IN  result' = [NoResult EXCEPT !.op = "uri_validate_rpc_method",
                                      !.ok = r.ok, !.msg = r.msg]
    /\ UNCHANGED <<attributes, uri, cloud_event, uproto_uuid, calls, now>>

\* UriValidator::validate_rpc_response(&uri)
UriValidateRpcResponse ==
    /\ result.op = "none"
    /\ LET r == UriValidator_validate_rpc_response(uri)
       IN  result' = [NoResult EXCEPT !.op = "uri_validate_rpc_response",
                                      !.ok = r.ok, !.msg = r.msg]
    /\ UNCHANGED <<attributes, uri, cloud_event, uproto_uuid, calls, now>>

\* UriValidator::is_micro_form(&uri)
UriIsMicroForm ==
    /\ result.op = "none"
    /\ result' = [NoResult EXCEPT !.op = "uri_is_micro_form",
                                  !.value = Some(is_micro_form(uri))]
    /\ UNCHANGED <<attributes, uri, cloud_event, uproto_uuid, calls, now>>

\* UriValidator::is_rpc_method(&uri)
UriIsRpcMethod ==
    /\ result.op = "none"
    /\ result' = [NoResult EXCEPT !.op = "uri_is_rpc_method",
                                  !.value = Some(is_rpc_method(uri))]
    /\ UNCHANGED <<attributes, uri, cloud_event, uproto_uuid, calls, now>>

\* UriValidator::is_rpc_response(&uri)
UriIsRpcResponse ==
    /\ result.op = "none"
    /\ result' = [NoResult EXCEPT !.op = "uri_is_rpc_response",
                                  !.value = Some(is_rpc_response(uri))]
    /\ UNCHANGED <<attributes, uri, cloud_event, uproto_uuid, calls, now>>

\* CloudEventValidator::validate_topic_uri(&uri)
ValidateTopicUri ==
    /\ result.op = "none"
    /\ LET r == validate_topic_uri(uri)
       IN  result' = [NoResult EXCEPT !.op = "validate_topic_uri",
                                      !.ok = r.ok, !.msg = r.msg]
    /\ UNCHANGED <<attributes, uri, cloud_event, uproto_uuid, calls, now>>

\* CloudEventValidator::validate_rpc_topic_uri(&uri)
ValidateRpcTopicUri ==
    /\ result.op = "none"
    /\ LET r == validate_rpc_topic_uri(uri)
       IN  result' = [NoResult EXCEPT !.op = "validate_rpc_topic_uri",
                                      !.ok = r.ok, !.msg = r.msg]
    /\ UNCHANGED <<attributes, uri, cloud_event, uproto_uuid, calls, now>>

\* validator.validate(&cloud_event)
CloudEventValidate(v) ==
    /\ result.op = "none"
    /\ LET r == CloudEventValidator_validate(v, cloud_event)
       IN  result' = [NoResult EXCEPT !.op = "cloud_event_validate", !.validator = v,
                                      !.ok = r.ok, !.msg = r.msg, !.code = r.code,
                                      !.checks = cloud_event_sub_checks(v, cloud_event)]
    /\ UNCHANGED <<attributes, uri, cloud_event, uproto_uuid, calls, now>>

NextEvent ==
    \/ CloudEventGetValidator
    \/ \E v \in CloudEventValidatorSet : CloudEventValidate(v)

SpecEvent == InitEvent /\ [][NextEvent]_vars

NextUri ==
    \/ ValidateTopicUri
    \/ ValidateRpcTopicUri
    \/ UriValidate
    \/ UriValidateRpcMethod
    \/ UriValidateRpcResponse
    \/ UriIsMicroForm
    \/ UriIsRpcMethod
    \/ UriIsRpcResponse

SpecUri == InitUri /\ [][NextUri]_vars

\* the identifier a call is applied to: the one just constructed, or the
\* one assembled from the two words
Constructed == result.op = "from_u64_pair" /\ result.ok

InitUuid ==
    /\ attributes = UAttributes_default
    /\ uri = UUri_default
    /\ cloud_event = CloudEvent_default
    /\ uproto_uuid \in UuidSet
    /\ result = NoResult
    /\ calls = NoCalls
    /\ now = 0

\* UUID::from_u64_pair(msb, lsb)
FromU64Pair ==
    /\ result.op = "none"
    /\ LET r == from_u64_pair(uproto_uuid.msb, uproto_uuid.lsb)
       IN  result' = [NoResult EXCEPT !.op = "from_u64_pair", !.ok = r.ok, !.msg = r.msg,
                                      !.value = r.value]
    /\ UNCHANGED <<attributes, uri, cloud_event, uproto_uuid, calls, now>>

\* UUID::from_bytes(&bytes), bytes being the sixteen bytes of the two words
FromBytes ==
    /\ result.op = "none"
    /\ LET bytes == to_be_bytes(uproto_uuid.msb) \o to_be_bytes(uproto_uuid.lsb)
           r == from_bytes(bytes)
       IN  result' = [NoResult EXCEPT !.op = "from_bytes", !.ok = r.ok, !.msg = r.msg,
                                      !.value = r.value, !.input = Some(bytes)]
    /\ UNCHANGED <<attributes, uri, cloud_event, uproto_uuid, calls, now>>

\* uuid.to_hyphenated_string()
ToHyphenatedString ==
    /\ result.op = "none" \/ Constructed
    /\ LET u == IF Constructed THEN unwrap(result.value) ELSE uproto_uuid
       IN  result' = [NoResult EXCEPT !.op = "to_hyphenated_string",
                                      !.value = Some(to_hyphenated_string(u)),
                                      !.input = Some(u),
                                      !.after = Append(result.after, result.op)]
    /\ UNCHANGED <<attributes, uri, cloud_event, uproto_uuid, calls, now>>

\* text.parse::<UUID>(), the text being one of the explored texts
FromStr(kind) ==
    /\ result.op = "none"
    /\ LET text == uuid_text(uproto_uuid, kind)
           r == from_str(text)
       IN  result' = [NoResult EXCEPT !.op = "from_str", !.ok = r.ok, !.msg = r.msg,
                                      !.value = r.value, !.input = Some(text)]
    /\ UNCHANGED <<attributes, uri, cloud_event, uproto_uuid, calls, now>>

\* uuid.to_hyphenated_string().parse::<UUID>()
ParseHyphenated ==
    /\ result.op = "to_hyphenated_string"
    /\ LET text == unwrap(result.value)
           r == from_str(text)
       IN  result' = [NoResult EXCEPT !.op = "from_str", !.ok = r.ok, !.msg = r.msg,
                                      !.value = r.value, !.input = Some(text),
                                      !.after = Append(result.after, result.op)]
    /\ UNCHANGED <<attributes, uri, cloud_event, uproto_uuid, calls, now>>

\* uuid.get_time()
GetTime ==
    /\ result.op = "none"
    /\ result' = [NoResult EXCEPT !.op = "get_time", !.value = get_time(uproto_uuid)]
    /\ UNCHANGED <<attributes, uri, cloud_event, uproto_uuid, calls, now>>

\* UuidValidators::get_validator(&uuid)
UuidGetValidator ==
    /\ result.op = "none"
    /\ result' = [NoResult EXCEPT !.op = "uuid_get_validator",
                                  !.validator = UuidValidators_get_validator(uproto_uuid)]
    /\ UNCHANGED <<attributes, uri, cloud_event, uproto_uuid, calls, now>>

\* validator.validate(&uuid), the validator being any of the three
UuidValidate(v) ==
    /\ result.op = "none"
    /\ LET r == UuidValidator_validate(v, uproto_uuid)
       IN  result' = [NoResult EXCEPT !.op = "uuid_validate", !.validator = v,
                                      !.ok = r.ok, !.msg = r.msg,
                                      !.checks = uuid_sub_checks(v, uproto_uuid)]
    /\ UNCHANGED <<attributes, uri, cloud_event, uproto_uuid, calls, now>>

\* uuid.get_time() and other.get_time() next to the comparison of the two
\* identifiers as 128-bit integers
CompareByTime(other) ==
    /\ result.op = "none"
    /\ result' = [NoResult EXCEPT !.op = "compare", !.input = Some(other),
                                  !.value = Some([time |-> get_time(uproto_uuid),
                                                  other_time |-> get_time(other),
                                                  lt |-> u128_lt(uproto_uuid, other)])]
    /\ UNCHANGED <<attributes, uri, cloud_event, uproto_uuid, calls, now>>

NextUuid ==
    \/ \E other \in ComparedSet : CompareByTime(other)
    \/ FromU64Pair
    \/ FromBytes
    \/ ToHyphenatedString
    \/ \E kind \in TextKinds : FromStr(kind)
    \/ ParseHyphenated
    \/ GetTime
    \/ UuidGetValidator
    \/ \E v \in UuidValidators : UuidValidate(v)

SpecUuid == InitUuid /\ [][NextUuid]_vars

\* the three validate operations, each on the values it is handed
InitValidate == InitAttributes \/ InitUuid \/ InitEvent

NextValidate ==
    \/ \E v \in Validators : Validate(v)
    \/ \E v \in UuidValidators : UuidValidate(v)
    \/ \E v \in CloudEventValidatorSet : CloudEventValidate(v)

SpecValidate == InitValidate /\ [][NextValidate]_vars

(***************************************************************************)
(* Concurrent callers: every caller runs validate or is_expired on the     *)
(* shared attributes or on its own, validate one sub-check at a time,      *)
(* while the wall clock advances                                           *)
(***************************************************************************)
InitConcurrent ==
    /\ attributes \in ConcAttributesSet
    /\ uri = UUri_default
    /\ cloud_event = CloudEvent_default
    /\ uproto_uuid = Uuid_default
    /\ result = NoResult
    /\ calls = [t \in Threads |-> [NoCall EXCEPT !.own = OwnAttributes(t)]]
    /\ now = 0

\* the &UAttributes a call of caller t reads
arg_of(t) == IF calls[t].arg = "shared" THEN attributes ELSE calls[t].own

\* caller t enters Validators::get_validator(a).validate(a) or .is_expired(a)
Call(t, op, arg) ==
    /\ calls[t].pc = "idle"
    /\ LET a == IF arg = "shared" THEN attributes ELSE calls[t].own
       IN  calls' = [calls EXCEPT ![t] =
                        [@ EXCEPT !.pc = "running", !.op = op, !.arg = arg,
                                  !.validator = Validators_get_validator(a),
                                  !.i = 1]]
    /\ UNCHANGED <<attributes, uri, cloud_event, uproto_uuid, result, now>>

\* caller t evaluates the next element of the vec![..] of validate and,
\* after the last one, collects the reasons
ValidateStep(t) ==
    /\ calls[t].pc = "running"
    /\ calls[t].op = "validate"
    /\ LET c == calls[t]
           results == Append(c.results, sub_checks(c.validator, arg_of(t))[c.i])
           error_message == join(filter_map_err(results), "; ")
       IN  calls' = [calls EXCEPT ![t] =
                        IF c.i < 6
                        THEN [c EXCEPT !.results = results, !.i = c.i + 1]
                        ELSE [c EXCEPT !.results = results, !.pc = "done",
                                       !.ok = (error_message = ""),
                                       !.msg = error_message]]
    /\ UNCHANGED <<attributes, uri, cloud_event, uproto_uuid, result, now>>

\* caller t runs is_expired, which reads the wall clock
ExpiredStep(t, overflow_checks) ==
    /\ calls[t].pc = "running"
    /\ calls[t].op = "is_expired"
    /\ LET r == is_expired(arg_of(t), Some(u64_from(now)), overflow_checks)
       IN  calls' = [calls EXCEPT ![t] =
                        [@ EXCEPT !.pc = "done", !.ok = r.ok, !.msg = r.msg,
                                  !.panic = r.panic]]
    /\ UNCHANGED <<attributes, uri, cloud_event, uproto_uuid, result, now>>

\* caller t has used the outcome and may call again
Return(t) ==
    /\ calls[t].pc = "done"
    /\ calls' = [calls EXCEPT ![t] = [NoCall EXCEPT !.own = calls[t].own]]
    /\ UNCHANGED <<attributes, uri, cloud_event, uproto_uuid, result, now>>

\* a millisecond passes
Tick ==
    /\ now < MaxClock
    /\ now' = now + 1
    /\ UNCHANGED <<attributes, uri, cloud_event, uproto_uuid, result, calls>>

NextConcurrent ==
    \/ \E t \in Threads, op \in {"validate", "is_expired"}, arg \in {"shared", "own"} :
          Call(t, op, arg)
    \/ \E t \in Threads : ValidateStep(t)
    \/ \E t \in Threads, overflow_checks \in BOOLEAN : ExpiredStep(t, overflow_checks)
    \/ \E t \in Threads : Return(t)
    \/ Tick

SpecConcurrent == InitConcurrent /\ [][NextConcurrent]_vars

TypeOK ==
    /\ result.op \in {"none", "get_validator", "cloud_event_get_validator", "validate",
                      "is_expired", "uri_validate", "uri_validate_rpc_method",
                      "uri_validate_rpc_response", "uri_is_micro_form",
                      "uri_is_rpc_method", "uri_is_rpc_response",
                      "validate_topic_uri", "validate_rpc_topic_uri", "cloud_event_validate", "compare",
                      "from_u64_pair", "from_bytes", "to_hyphenated_string", "from_str",
                      "get_time", "uuid_get_validator", "uuid_validate"}
    /\ \A t \in Threads : calls[t].pc \in {"idle", "running", "done"}
    /\ now \in 0..MaxClock

(***************************************************************************)
(* Properties                                                              *)
(***************************************************************************)
\* what the documentation says about an address, stated on its fields
HasNonBlank(s) == \E i \in 1..Len(s) : ~is_whitespace(s[i])

HasRpc(s) == \E i \in 1..Len(s) : i + 2 <= Len(s) /\ s[i] = "r" /\ s[i + 1] = "p" /\ s[i + 2] = "c"

HasResponse(s) ==
    \E i \in 1..Len(s) :
        /\ i + 7 <= Len(s)
        /\ <<s[i], s[i + 1], s[i + 2], s[i + 3], s[i + 4], s[i + 5], s[i + 6], s[i + 7]>>
             = str_response

SlotsPresent(u) == u.authority # None /\ u.entity # None /\ u.resource # None

PassesValidate(u) ==
    /\ SlotsPresent(u)
    /\ u.authority[1].remote # None
    /\ HasNonBlank(u.entity[1].name)

MethodShaped(u) ==
    /\ SlotsPresent(u)
    /\ HasRpc(u.resource[1].name)
    /\ \/ u.resource[1].instance # None /\ HasNonBlank(u.resource[1].instance[1])
       \/ u.resource[1].id # None /\ u.resource[1].id[1] # 0

ResponseShaped(u) ==
    /\ MethodShaped(u)
    /\ \/ u.resource[1].instance # None /\ HasResponse(u.resource[1].instance[1])
       \/ u.resource[1].id # None /\ u.resource[1].id[1] # 0

\* the reasons of the failing sub-checks up to check i, joined with "; "
RECURSIVE ReasonsUpTo(_, _)
ReasonsUpTo(checks, i) ==
    IF i = 0 THEN ""
    ELSE LET before == ReasonsUpTo(checks, i - 1)
         IN  IF checks[i].ok THEN before
             ELSE IF before = "" THEN checks[i].msg
             ELSE before \o "; " \o checks[i].msg

Validated(v) == result.op = "validate" /\ result.validator = v

\* C1: validate evaluates all six sub-checks (type, ttl, sink, commstatus,
\* permission level, reqid) whatever the earlier ones returned, and its
\* failure message is exactly the reasons of the failing sub-checks joined
\* with "; " in that order; ttl = 0 with an unrecognized commstatus yields
\* both reasons.
C1_ValidateJoinsAllReasons ==
    result.op = "validate" =>
        /\ Len(result.checks) = 6
        /\ result.checks[1] = validate_type(result.validator, attributes)
        /\ result.checks[2] = validate_ttl(result.validator, attributes)
        /\ result.checks[3] = validate_sink(result.validator, attributes)
        /\ result.checks[4] = validate_commstatus(result.validator, attributes)
        /\ result.checks[5] = validate_permission_level(result.validator, attributes)
        /\ result.checks[6] = validate_reqid(result.validator, attributes)
        /\ (\E i \in 1..6 : ~result.checks[i].ok)
              => ~result.ok /\ result.msg = ReasonsUpTo(result.checks, 6)
        /\ ( /\ result.validator = "Publish"
             /\ attributes.type = 1
             /\ attributes.ttl = Some(0)
             /\ attributes.commstatus = Some(-42)
             /\ attributes.sink = None
             /\ attributes.permission_level = None
             /\ attributes.reqid = None )
              => result.msg = "Invalid TTL [0]; Invalid Communication Status Code [-42]"

C1_Witness ==
    /\ Validated("Publish")
    /\ attributes.ttl = Some(0)
    /\ attributes.commstatus = Some(-42)
    /\ result.msg = "Invalid TTL [0]; Invalid Communication Status Code [-42]"

\* C2: for a Request the sink check succeeds iff a sink is present and passes
\* validate_rpc_response_topic (validate, resource name exactly "rpc",
\* instance exactly "response"); an absent sink fails with "Missing Sink";
\* Request attributes with the rpc.response sink of an application and a
\* ttl of at least 1 pass validate.
C2_RequestSinkIsResponseTopic ==
    Validated("Request") =>
        /\ result.checks[3].ok
              <=> (attributes.sink # None /\ validate_rpc_topic_uri(attributes.sink[1]).ok)
        /\ attributes.sink = None => result.checks[3] = Failure("Missing Sink")
        /\ ( /\ attributes.type = 2
             /\ attributes.sink = Some(remote_uri(rpc_response_resource))
             /\ attributes.ttl # None /\ attributes.ttl[1] >= 1
             /\ attributes.commstatus = None
             /\ attributes.permission_level = None
             /\ attributes.reqid = None )
              => result.ok

\* C3: for a Response the sink check succeeds iff a sink is present, passes
\* validate and is RPC-method-shaped, and an absent sink fails with
\* "Missing Sink"; for a Publish an absent sink is accepted and a present
\* sink succeeds iff it passes the plain address validate.
C3_ResponseAndPublishSink ==
    /\ Validated("Response") =>
          /\ result.checks[3].ok
                <=> ( /\ attributes.sink # None
                      /\ PassesValidate(attributes.sink[1])
                      /\ MethodShaped(attributes.sink[1]) )
          /\ attributes.sink = None => result.checks[3] = Failure("Missing Sink")
    /\ Validated("Publish") =>
          result.checks[3].ok
              <=> (attributes.sink = None \/ PassesValidate(attributes.sink[1]))

C3_Witness ==
    /\ Validated("Response")
    /\ attributes.sink = Some(remote_uri(rpc_echo_resource))
    /\ result.checks[3].ok

C5_ValidateRpcResponseAcceptsResponseShape ==
    (result.op = "uri_validate_rpc_response" /\ PassesValidate(uri)) =>
        /\ is_rpc_response(uri) => result.ok
        /\ ~is_rpc_response(uri)
              => ~result.ok /\ result.msg = "Invalid RPC response type"

\* the clock reading and the creation time of the explored states fit the
\* two low limbs
Millis(x) == x[3] * LimbBase + x[4]

\* C6: is_expired reports "Payload is expired" iff the ttl is present and
\* positive, the id yields a creation time and now_ms - created >= ttl; it
\* succeeds whenever the ttl is absent or <= 0, the id is absent or the id
\* has no creation time, whatever the clock reading.
C6_ExpiredIffElapsedReachesTtl ==
    (result.op = "is_expired" /\ result.clock # None) =>
        LET created == IF attributes.id = None THEN None
                       ELSE UuidUtils_get_time(attributes.id[1])
            live == \/ attributes.ttl = None
                    \/ attributes.ttl[1] <= 0
                    \/ created = None
        IN  /\ live => result.ok /\ ~result.panic
            /\ (~result.ok /\ ~result.panic /\ result.msg = "Payload is expired")
                  <=> ( /\ ~live
                        /\ Millis(result.clock[1]) - Millis(created[1]) >= attributes.ttl[1] )
            /\ (~live /\ Millis(result.clock[1]) - Millis(created[1]) < attributes.ttl[1])
                  => result.ok /\ ~result.panic

\* C7: Validators::get_validator returns the Publish, Request or Response
\* validator for the type tag Publish, Request or Response and the Publish
\* validator for every other tag; CloudEventValidators::get_validator
\* returns Response or Request for those type names and Publish otherwise.
C7_RoleSelection ==
    /\ result.op = "get_validator" =>
          /\ attributes.type = 1 => result.validator = "Publish"
          /\ attributes.type = 2 => result.validator = "Request"
          /\ attributes.type = 3 => result.validator = "Response"
          /\ attributes.type \notin {1, 2, 3} => result.validator = "Publish"
    /\ result.op = "cloud_event_get_validator" =>
          /\ cloud_event.ty = "res.v1" => result.validator = "Response"
          /\ cloud_event.ty = "req.v1" => result.validator = "Request"
          /\ cloud_event.ty \notin {"res.v1", "req.v1"} => result.validator = "Publish"

C7_Witness ==
    /\ result.op = "get_validator"
    /\ attributes.type = 4
    /\ result.validator = "Publish"

\* C8: ttl rule. Request: an absent ttl fails with "Missing TTL", a present
\* ttl < 1 fails with "Invalid TTL [n]"; Publish and Response: an absent ttl
\* is accepted, a present ttl < 1 fails with "Invalid TTL [n]"; every
\* ttl >= 1 is accepted by all roles; a Request whose other checks pass and
\* whose ttl is 0 fails with exactly "Invalid TTL [0]".
C8_TtlRule ==
    result.op = "validate" =>
        LET ttl == attributes.ttl
            check == result.checks[2]
        IN  /\ (ttl # None /\ ttl[1] >= 1) => check.ok
            /\ (ttl # None /\ ttl[1] < 1)
                  => check = Failure("Invalid TTL [" \o ToString(ttl[1]) \o "]")
            /\ ttl = Some(0) => check.msg = "Invalid TTL [0]"
            /\ ttl = Some(-1) => check.msg = "Invalid TTL [-1]"
            /\ ttl = None =>
                  IF result.validator = "Request"
                  THEN check = Failure("Missing TTL")
                  ELSE check.ok
            /\ ( /\ result.validator = "Request"
                 /\ ttl = Some(0)
                 /\ \A i \in {1, 3, 4, 5, 6} : result.checks[i].ok )
                  => ~result.ok /\ result.msg = "Invalid TTL [0]"

C8_Witness ==
    /\ Validated("Request")
    /\ attributes.ttl = Some(0)
    /\ attributes.sink # None
    /\ result.checks[3].ok
    /\ result.msg = "Invalid TTL [0]"

\* C9: correlation id rule. Response: an absent reqid, the all-zero default
\* identifier and a reqid that is not a valid identifier each fail with
\* "Missing correlation Id", whatever the other fields; Publish and Request:
\* an absent reqid is accepted, a present reqid that is not a valid
\* identifier fails with "Invalid UUID".
C9_CorrelationIdRule ==
    result.op = "validate" =>
        LET reqid == attributes.reqid
            check == result.checks[6]
        IN  IF result.validator = "Response"
            THEN /\ ( \/ reqid = None
                      \/ reqid = Some(Uuid_default)
                      \/ ~UuidUtils_is_uuid(reqid[1]) )
                       => /\ check = Failure("Missing correlation Id")
                          /\ ~result.ok
                 /\ (reqid # None /\ reqid # Some(Uuid_default) /\ UuidUtils_is_uuid(reqid[1]))
                       => check.ok
            ELSE /\ reqid = None => check.ok
                 /\ (reqid # None /\ ~UuidUtils_is_uuid(reqid[1]))
                       => check = Failure("Invalid UUID")
                 /\ (reqid # None /\ UuidUtils_is_uuid(reqid[1])) => check.ok

C9_Witness ==
    /\ Validated("Response")
    /\ attributes.reqid = Some(Uuid_default)
    /\ attributes.type = 3
    /\ result.msg = "Missing correlation Id"

C11_ValidateRpcMethod ==
    result.op = "uri_validate_rpc_method" =>
        IF is_failure(UriValidator_validate(uri))
        THEN ~result.ok /\ result.msg = UriValidator_validate(uri).msg
        ELSE /\ result.ok <=> MethodShaped(uri)
             /\ ~result.ok =>
                   result.msg = "Invalid RPC method uri. Uri should be the method to be called, or method from response"

C11_Witness ==
    /\ result.op = "uri_validate_rpc_method"
    /\ MethodShaped(uri)
    /\ ~result.ok
    /\ result.msg = "Uri is remote missing uAuthority"

\* the layout of an identifier, stated on the two words: bits 12..15 of the
\* high word and the top two bits of the low word
VersionBits(msb) == (msb[4] \div 2 ^ 12) % 16

VariantBits(lsb) == lsb[1] \div 2 ^ 14

BitsMatch(u) == VersionBits(u.msb) = 8 /\ VariantBits(u.lsb) = 2

ConversionErrors == {"not a v8 UUID", "not an RFC4122 UUID"}

\* the words spelled big-endian by sixteen bytes
BigEndianWords(b) ==
    [msb |-> <<b[1] * 256 + b[2], b[3] * 256 + b[4], b[5] * 256 + b[6], b[7] * 256 + b[8]>>,
     lsb |-> <<b[9] * 256 + b[10], b[11] * 256 + b[12], b[13] * 256 + b[14],
               b[15] * 256 + b[16]>>]

\* a construction from the words of u: error exactly on mismatching bits,
\* otherwise the identifier holding the very words
ConstructsExactly(u) ==
    /\ ~result.ok <=> ~BitsMatch(u)
    /\ ~result.ok => result.msg \in ConversionErrors /\ result.value = None
    /\ result.ok => result.value = Some(u)

\* C12: constructing an identifier from sixteen bytes, from a word pair and
\* from text fails with a conversion error exactly when the version bits
\* differ from 0b1000 or the variant bits differ from 0b10, and otherwise
\* yields the identifier whose two words are the given ones, from_bytes
\* reading both words big-endian; malformed text fails as well.
C12_Construction ==
    /\ result.op = "from_u64_pair" => ConstructsExactly(uproto_uuid)
    /\ result.op = "from_bytes" => ConstructsExactly(BigEndianWords(result.input[1]))
    /\ result.op = "from_str" /\ result.after = <<>> =>
          IF result.input[1] \in { uuid_text(uproto_uuid, k) : k \in {"lower", "upper"} }
          THEN ConstructsExactly(uproto_uuid)
          ELSE ~result.ok /\ result.value = None

C12_Witness ==
    /\ result.op = "from_bytes"
    /\ result.input = Some(<<0, 0, 0, 0, 0, 1, 128, 0, 128, 0, 0, 0, 0, 0, 0, 0>>)
    /\ result.ok
    /\ result.value = Some([msb |-> <<0, 0, 1, 32768>>, lsb |-> <<32768, 0, 0, 0>>])

\* C13: get_time is none whenever the version or the variant bits mismatch,
\* and otherwise is the 48-bit timestamp, the high word shifted right by 16.
C13_GetTime ==
    result.op = "get_time" =>
        IF BitsMatch(uproto_uuid)
        THEN result.value
               = Some(<<0, uproto_uuid.msb[1], uproto_uuid.msb[2], uproto_uuid.msb[3]>>)
        ELSE result.value = None

C13_Witness ==
    /\ result.op = "get_time"
    /\ VersionBits(uproto_uuid.msb) = 8
    /\ VariantBits(uproto_uuid.lsb) # 2
    /\ uproto_uuid.msb[3] = 1
    /\ result.value = None

\* C14: for every identifier u constructed with from_u64_pair, parsing
\* to_hyphenated_string(u) succeeds and returns an identifier equal to u.
C14_RoundTrip ==
    result.op = "from_str" /\ result.after = <<"from_u64_pair", "to_hyphenated_string">> =>
        /\ result.ok
        /\ result.value = Some(uproto_uuid)

C14_Witness ==
    /\ result.op = "from_str"
    /\ result.after = <<"from_u64_pair", "to_hyphenated_string">>
    /\ result.input = Some(<<"0", "0", "0", "0", "0", "0", "0", "0", "-",
                             "0", "0", "0", "1", "-", "8", "0", "0", "0", "-",
                             "8", "0", "1", "0", "-",
                             "1", "0", "1", "0", "1", "0", "1", "0", "1", "a", "1", "a">>)
    /\ result.value = Some([msb |-> <<0, 0, 1, 32768>>, lsb |-> <<32784, 4112, 4112, 6682>>])

C19_V8AcceptsEveryV8 ==
    (result.op = "uuid_validate" /\ result.validator = "UUIDv8" /\ BitsMatch(uproto_uuid))
        => result.ok

\* C17: is_expired neither panics nor reports "Payload is expired" for
\* attributes with a ttl above 0 whose id carries a creation time later than
\* the clock reading.
C17_NoUnderflow ==
    ( /\ result.op = "is_expired"
      /\ result.clock # None
      /\ attributes.ttl # None
      /\ attributes.id # None ) =>
        LET created == UuidUtils_get_time(attributes.id[1])
        IN  ( /\ attributes.ttl[1] > 0
              /\ created # None
              /\ Millis(created[1]) > Millis(result.clock[1]) )
                => /\ ~result.panic
                   /\ result.msg # "Payload is expired"
                   /\ result.ok

\* C18: the type check of the validator that Validators::get_validator
\* returns for the attributes succeeds exactly when the type tag is Publish,
\* Request or Response; for any other tag it fails with "Wrong Attribute
\* Type [..]" or "Unknown Attribute Type [..]", so validate fails.
C18_FallbackNotSilent ==
    \A v \in Validators :
        (Validated(v) /\ v = Validators_get_validator(attributes)) =>
            /\ result.checks[1].ok <=> attributes.type \in {1, 2, 3}
            /\ attributes.type \notin {1, 2, 3} =>
                  /\ ~result.ok
                  /\ result.checks[1].msg
                       \in { "Wrong Attribute Type [UMESSAGE_TYPE_UNSPECIFIED]",
                             "Unknown Attribute Type [" \o ToString(attributes.type) \o "]" }

C18_Witness ==
    /\ Validated("Publish")
    /\ Validators_get_validator(attributes) = "Publish"
    /\ attributes.type = 0
    /\ ~result.ok
    /\ result.msg = "Wrong Attribute Type [UMESSAGE_TYPE_UNSPECIFIED]"

\* C20: is_micro_form is true exactly when the address is not empty, the
\* entity and the resource carry a numeric id and the authority is local or
\* numeric (an IP address or an id); it is true in particular for an IP or
\* id authority with entity and resource ids.
C20_MicroForm ==
    result.op = "uri_is_micro_form" =>
        ( result.value = Some(TRUE)
            <=> /\ SlotsPresent(uri)
                /\ uri.entity[1].id # None
                /\ uri.resource[1].id # None
                /\ \/ uri.authority[1].remote = None
                   \/ uri.authority[1].remote[1].kind \in {"Ip", "Id"} )

\* the outcome a finished call of caller t returned
Outcome(t) == [ok |-> calls[t].ok, msg |-> calls[t].msg]

FinishedValidate(t) == calls[t].pc = "done" /\ calls[t].op = "validate"

\* C16: validate and is_expired calls interleaved in any order, on the shared
\* attributes or on a caller's own, never change a field of any attributes
\* value, and every validate call returns what validate returns when run
\* alone on the same attributes, whatever the clock and the other calls did
\* meanwhile.
C16_PureUnderInterleaving ==
    /\ [](\A t \in Threads :
            FinishedValidate(t) =>
                /\ Outcome(t) = UAttributesValidator_validate(calls[t].validator, arg_of(t))
                /\ \A t2 \in Threads :
                      (FinishedValidate(t2) /\ arg_of(t2) = arg_of(t))
                          => Outcome(t2) = Outcome(t))
    /\ [][ /\ attributes' = attributes
           /\ \A t \in Threads : calls'[t].own = calls[t].own ]_vars

C16_Witness ==
    /\ FinishedValidate(1)
    /\ calls[1].arg = "shared"
    /\ ~calls[1].ok
    /\ calls[1].msg = "Missing TTL; Missing Sink; Invalid Communication Status Code [-42]"
    /\ calls[2].pc = "running"
    /\ calls[2].op = "validate"
    /\ calls[2].arg = "shared"
    /\ calls[2].i = 3
    /\ now > 0

\* C21: is_rpc_method is true exactly when no slot of the address is absent,
\* the resource name contains "rpc" and the instance is present and non-blank
\* or the resource id is present and non-zero; on an address with an absent
\* slot it returns false.
C21_IsRpcMethod ==
    result.op = "uri_is_rpc_method" =>
        /\ result.value \in {Some(TRUE), Some(FALSE)}
        /\ result.value = Some(TRUE)
              <=> /\ SlotsPresent(uri)
                  /\ HasRpc(uri.resource[1].name)
                  /\ \/ /\ uri.resource[1].instance # None
                        /\ HasNonBlank(uri.resource[1].instance[1])
                     \/ /\ uri.resource[1].id # None
                        /\ uri.resource[1].id[1] # 0
        /\ ~SlotsPresent(uri) => result.value = Some(FALSE)

C21_Witness ==
    /\ result.op = "uri_is_rpc_method"
    /\ SlotsPresent(uri)
    /\ HasRpc(uri.resource[1].name)
    /\ uri.resource[1].instance = Some(<<" ">>)
    /\ uri.resource[1].id = None
    /\ result.value = Some(FALSE)

\* C22: is_rpc_response is true exactly when is_rpc_method is true and the
\* instance contains "response" or the resource id is non-zero; so it
\* implies is_rpc_method, and an address that is a method through a non-zero
\* resource id is a response whatever its instance.
C22_IsRpcResponse ==
    result.op = "uri_is_rpc_response" =>
        LET by_id == /\ SlotsPresent(uri)
                     /\ uri.resource[1].id # None
                     /\ uri.resource[1].id[1] # 0
        IN  /\ result.value = Some(TRUE)
                  <=> /\ is_rpc_method(uri)
                      /\ \/ /\ uri.resource[1].instance # None
                            /\ HasResponse(uri.resource[1].instance[1])
                         \/ by_id
            /\ result.value = Some(TRUE) => MethodShaped(uri)
            /\ (MethodShaped(uri) /\ by_id) => result.value = Some(TRUE)

C22_Witness ==
    /\ result.op = "uri_is_rpc_response"
    /\ SlotsPresent(uri)
    /\ uri.resource[1].name = str_rpc
    /\ uri.resource[1].instance = Some(str_echo)
    /\ uri.resource[1].id = Some(7)
    /\ result.value = Some(TRUE)

C24_ValidateRpcTopicUri ==
    result.op = "validate_rpc_topic_uri" =>
        /\ result.ok <=> /\ UriValidator_validate(uri).ok
                         /\ uri.resource[1].name = str_rpc
                         /\ uri.resource[1].instance = Some(str_response)
        /\ is_failure(UriValidator_validate(uri)) =>
              result.msg = "Invalid RPC uri application response topic. "
                              \o UriValidator_validate(uri).msg
        /\ (UriValidator_validate(uri).ok /\ ~result.ok) =>
              result.msg
                = "Invalid RPC uri application response topic. UriPart is missing rpc.response."
        /\ uri.resource = None => ~result.ok

C24_Witness ==
    /\ result.op = "validate_rpc_topic_uri"
    /\ UriValidator_validate(uri).ok
    /\ uri.resource[1].name = str_rpc
    /\ uri.resource[1].instance = Some(str_response \o <<"2">>)
    /\ ~result.ok
    /\ result.msg
         = "Invalid RPC uri application response topic. UriPart is missing rpc.response."

\* the reasons of the failing checks up to check i, joined with one space
RECURSIVE ReasonsSpaced(_, _)
ReasonsSpaced(checks, i) ==
    IF i = 0 THEN ""
    ELSE LET before == ReasonsSpaced(checks, i - 1)
         IN  IF checks[i].ok THEN before
             ELSE IF before = "" THEN checks[i].msg
             ELSE before \o " " \o checks[i].msg

EventValidated(v) == result.op = "cloud_event_validate" /\ result.validator = v

\* C25: CloudEventValidator::validate runs the version, id, source, type and
\* sink checks whatever the earlier ones returned; when any fails the status
\* is a failure with code InvalidArgument whose message is the reasons of the
\* failing checks joined with one space in that order (an invalid source
\* with a missing sink gives the source reason followed by the sink reason);
\* the status is OK only when all five succeed.
C25_CloudEventValidate ==
    result.op = "cloud_event_validate" =>
        /\ Len(result.checks) = 5
        /\ result.checks[1] = CloudEventValidator_validate_version(cloud_event)
        /\ result.checks[2] = CloudEventValidator_validate_id(cloud_event)
        /\ result.checks[3] = cloud_event_validate_source(result.validator, cloud_event)
        /\ result.checks[4] = cloud_event_validate_type(result.validator, cloud_event)
        /\ result.checks[5] = cloud_event_validate_sink(result.validator, cloud_event)
        /\ (\E i \in 1..5 : ~result.checks[i].ok)
              => /\ ~result.ok
                 /\ result.code = "InvalidArgument"
                 /\ result.msg = ReasonsSpaced(result.checks, 5)
        /\ result.ok <=> \A i \in 1..5 : result.checks[i].ok
        /\ result.ok => result.code = "OK"

C25_Witness ==
    /\ EventValidated("Response")
    /\ cloud_event.source = "//vcu/app//door"
    /\ cloud_event.sink = None
    /\ \A i \in {1, 2, 4} : result.checks[i].ok
    /\ result.code = "InvalidArgument"
    /\ result.msg
         = "Invalid RPC Response CloudEvent source [//vcu/app//door]. Invalid RPC method uri. UriPart should be the method to be called, or method from response. Invalid RPC Response CloudEvent sink. Response CloudEvent sink must be uri of the destination of the response."

\* C26: sink rules of the envelope per role. A Request, a Response and a
\* Notification event without a sink fail the sink check, a Publish event
\* without a sink passes it; the sink of a Request must pass
\* validate_rpc_method and its source validate_rpc_topic_uri; the sink of a
\* Response must pass validate_rpc_topic_uri and its source
\* validate_rpc_method.
C26_EnvelopeSinkRules ==
    result.op = "cloud_event_validate" =>
        LET v == result.validator
            source == LongUriSerializer_deserialize(cloud_event.source)
            source_check == result.checks[3]
            sink_check == result.checks[5]
        IN  /\ cloud_event.sink = None => (sink_check.ok <=> v = "Publish")
            /\ v = "Request" =>
                  /\ cloud_event.sink # None =>
                        (sink_check.ok <=>
                            UriValidator_validate_rpc_method(
                                LongUriSerializer_deserialize(cloud_event.sink[1])).ok)
                  /\ source_check.ok <=> validate_rpc_topic_uri(source).ok
            /\ v = "Response" =>
                  /\ cloud_event.sink # None =>
                        (sink_check.ok <=>
                            validate_rpc_topic_uri(
                                LongUriSerializer_deserialize(cloud_event.sink[1])).ok)
                  /\ source_check.ok <=> UriValidator_validate_rpc_method(source).ok
            /\ (v \in {"Request", "Response", "Notification"} /\ result.ok)
                  => cloud_event.sink # None

C26_Witness ==
    /\ EventValidated("Request")
    /\ cloud_event.sink = None
    /\ cloud_event.source = "//vcu/app//rpc.response"
    /\ result.checks[3].ok
    /\ result.checks[5]
         = Failure("Invalid RPC Request CloudEvent sink. Request CloudEvent sink must be uri for the method to be called.")
    /\ ~result.ok

C28_ExpiredStaysExpired ==
    ( /\ result.op = "is_expired"
      /\ result.earlier # None
      /\ ~result.earlier[1].ok
      /\ result.earlier[1].msg = "Payload is expired" )
        => ~result.ok /\ ~result.panic /\ result.msg = "Payload is expired"

\* C30: no failure is masked by the aggregation. UAttributesValidator::validate,
\* UuidValidator::validate and CloudEventValidator::validate return success
\* exactly when every sub-check returns success; every failing sub-check
\* carries a non-empty reason and a failure carries a non-empty message.
C30_NoFailureMasked ==
    result.op \in {"validate", "uuid_validate", "cloud_event_validate"} =>
        /\ Len(result.checks) = CASE result.op = "validate" -> 6
                                  [] result.op = "uuid_validate" -> 3
                                  [] result.op = "cloud_event_validate" -> 5
        /\ result.ok <=> \A i \in 1..Len(result.checks) : result.checks[i].ok
        /\ \A i \in 1..Len(result.checks) :
              ~result.checks[i].ok => result.checks[i].msg # ""
        /\ ~result.ok => result.msg # ""

C30_Witness ==
    /\ EventValidated("Notification")
    /\ cloud_event.sink = None
    /\ \A i \in 1..4 : result.checks[i].ok
    /\ ~result.checks[5].ok
    /\ ~result.ok
    /\ result.msg = "Invalid CloudEvent sink. Notification CloudEvent sink must be an uri."

====
